---- MODULE Spec2Model ----
(***************************************************************************)
(* A model of app.py, the JPYC dashboard: one run of the Streamlit script  *)
(* (API key check, address validation, the tokenbalance test and the       *)
(* paginated tokentx fetch), the normalisation of the fetched records and  *)
(* the daily net-flow aggregation.                                         *)
(*                                                                         *)
(* Strings the code inspects character by character (wallet addresses)     *)
(* are sequences of one-character strings.                                 *)
(***************************************************************************)
EXTENDS Integers, Sequences, FiniteSets, TLC

VARIABLES
    \* ---- one run of the script (app.py:197-275)
    pc,          \* position of the script run
    secret,      \* st.secrets["ETHERSCAN_API_KEY"]  (NoValue when absent)
    envkey,      \* os.getenv("ETHERSCAN_API_KEY")   (NoValue when absent)
    apikey,      \* the script's variable apikey
    address,     \* the text input, already stripped (app.py:220)
    button,      \* which button was clicked in this run
    offset,      \* slider: page size
    max_pages,   \* slider: page ceiling
    page,        \* fetch_tokentx_cached: local page
    rows,        \* fetch_tokentx_cached: local rows
    requests,    \* log of the upstream requests issued, in order
    responses,   \* log of the bodies received for tokentx, in order
    slept,       \* number of completed time.sleep(sleep_s) calls
    fetch,       \* "none" | "running" | "returned" | "raised"
    df,          \* the table fetch_tokentx_cached returned
    error,       \* the exception the fetch raised ("none" when it did not)
    ui,          \* the message the run ended with
    \* ---- is_valid_address applied to one input
    addr_in, addr_pc, addr_res,
    \* ---- the normalisation block applied to one batch
    norm_in, norm_pc, norm_res,
    \* ---- date filter and daily net flow applied to one table
    agg_in, agg_pc, agg_range, agg_f, daily

scriptVars == <<pc, secret, envkey, apikey, address, button, offset, max_pages,
                page, rows, requests, responses, slept, fetch, df, error, ui>>
addrVars   == <<addr_in, addr_pc, addr_res>>
normVars   == <<norm_in, norm_pc, norm_res>>
aggVars    == <<agg_in, agg_pc, agg_range, agg_f, daily>>
vars       == <<scriptVars, addrVars, normVars, aggVars>>

NoValue == "<none>"

-----------------------------------------------------------------------------
(* Character strings *)

Blank == " "

HexChars == {"0", "1", "9", "a", "f", "A", "F"}

RECURSIVE LStrip(_)
LStrip(s) == IF s # <<>> /\ Head(s) = Blank THEN LStrip(Tail(s)) ELSE s

RECURSIVE RStrip(_)
RStrip(s) ==
    IF s # <<>> /\ s[Len(s)] = Blank THEN RStrip(SubSeq(s, 1, Len(s) - 1)) ELSE s

\* str.strip()
Strip(s) == LStrip(RStrip(s))

\* str.startswith
StartsWith(s, p) == Len(s) >= Len(p) /\ SubSeq(s, 1, Len(p)) = p

LowerChar(c) == CASE c = "A" -> "a" [] c = "F" -> "f" [] c = "X" -> "x" [] OTHER -> c

\* str.lower()
Lower(s) == [i \in 1..Len(s) |-> LowerChar(s[i])]

Repeat(c, n) == [i \in 1..n |-> c]

-----------------------------------------------------------------------------
(* is_valid_address (app.py:60-62) *)

AddrLen == 42

Prefix0x == <<"0", "x">>

is_valid_address(addr) ==
    LET a == Strip(addr)
    IN  StartsWith(a, Prefix0x) /\ Len(a) = AddrLen

\* '0x' followed by exactly 40 hexadecimal characters.
IsHexAddress(s) ==
    /\ Len(s) = 42
    /\ SubSeq(s, 1, 2) = Prefix0x
    /\ \A i \in 3..42 : s[i] \in HexChars

\* Inputs: a prefix, a body whose length is within LenSlack of 40, filled
\* with one hex character except possibly one position, and optional
\* surrounding blanks.
LenSlack == 1

BodyLens == (AddrLen - 2 - LenSlack)..(AddrLen - 2 + LenSlack)

Prefixes == {Prefix0x, <<"0", "X">>, <<"a", "b">>, <<"x", "0">>}

AddrBody(n, fill, pos, c) == [i \in 1..n |-> IF i = pos THEN c ELSE fill]

AddrInputs ==
    {<<>>} \cup
    { Repeat(Blank, l) \o p \o AddrBody(n, fill, pos, c) \o Repeat(Blank, t) :
        l \in 0..1, t \in 0..1, p \in Prefixes, n \in BodyLens,
        fill \in {"a", "F"}, pos \in {0, 1, 20, 40}, c \in {"g", "9", Blank} }

AddrIdle == addr_in = <<>> /\ addr_pc = "idle" /\ addr_res = FALSE

AddrInit == addr_in \in AddrInputs /\ addr_pc = "call" /\ addr_res = FALSE

Validate ==
    /\ addr_pc = "call"
    /\ addr_res' = is_valid_address(addr_in)
    /\ addr_pc' = "done"
    /\ UNCHANGED <<addr_in, scriptVars, normVars, aggVars>>

-----------------------------------------------------------------------------
(* Numbers carried as text *)

\* The API sends timeStamp, value and tokenDecimal as strings.  A numeric
\* cell is modelled by what parsing finds in it: num = FALSE for text that
\* is no number (and for NaN, a key the record lacks), otherwise the
\* integer hi * 2^UnitBits + lo.  The sampled integers are either small
\* (hi = 0) or whole multiples of 2^UnitBits (lo = 0), all of which a
\* float64 holds exactly.
UnitBits == 59

Int64Bits == 64

RECURSIVE Pow2(_)
Pow2(n) == IF n = 0 THEN 1 ELSE 2 * Pow2(n - 1)

\* 2^63 and 2^64 in units of 2^UnitBits
SignedLimit   == Pow2(Int64Bits - 1 - UnitBits)
UnsignedLimit == Pow2(Int64Bits - UnitBits)

Num(hi, lo) == [num |-> TRUE, hi |-> hi, lo |-> lo]
Small(n)    == Num(0, n)
Big(k)      == Num(k, 0)
Junk        == [num |-> FALSE, hi |-> 0, lo |-> 0]
NaN         == Junk
NaNText     == <<"n", "a", "n">>

IntVal(hi, lo) == [hi |-> hi, lo |-> lo]
Zero      == IntVal(0, 0)
INT64_MIN == IntVal(0 - SignedLimit, 0)
INT64_MAX == IntVal(SignedLimit, -1)

IsNegative(v) == v.hi < 0 \/ (v.hi = 0 /\ v.lo < 0)
Negate(v)     == IntVal(0 - v.hi, 0 - v.lo)

\* What a float64 -> int64 cast of a value outside the int64 range yields
\* is not defined by C; the x86-64 conversion gives INT64_MIN, a
\* saturating one gives INT64_MAX.
CastOutcomes == {"min", "max"}

OutOfRangeCast(cast) == IF cast = "min" THEN INT64_MIN ELSE INT64_MAX

-----------------------------------------------------------------------------
(* The normalisation block of fetch_tokentx_cached (app.py:153-180) *)

Required == {"timeStamp", "value", "tokenDecimal", "from", "to", "hash"}

NumericKeys == {"timeStamp", "value", "tokenDecimal"}

\* pd.DataFrame(rows): the columns are the union of the records' keys, and
\* a record lacking a key holds NaN there.
Columns(rs) == UNION {DOMAIN rs[i] : i \in 1..Len(rs)}

Cell(r, k) ==
    IF k \in DOMAIN r THEN r[k]
    ELSE IF k \in NumericKeys THEN NaN ELSE NaNText

\* df.empty
Empty(rs) == Len(rs) = 0 \/ Columns(rs) = {}

EmptyFrame == [status |-> "ok", error |-> "none", table |-> <<>>]

\* df["timeStamp"].astype(int) raises on any text that is no integer.
TimestampsParse(rs) ==
    \A i \in 1..Len(rs) :
        LET c == Cell(rs[i], "timeStamp") IN c.num /\ c.hi = 0

\* pd.to_numeric(col, errors="coerce").fillna(0).astype(int) on tokenDecimal
Decimals(c) == IF c.num THEN c.lo ELSE 0

\* pd.to_numeric(df["value"], errors="coerce"): the dtype of the whole
\* column.  One unparsable cell (NaN) or one integer above 2^64 - 1 makes it
\* float64; otherwise one integer above 2^63 - 1 makes it uint64.
ValueDtype(rs) ==
    LET cells == {Cell(rs[i], "value") : i \in 1..Len(rs)}
    IN  IF \E c \in cells : ~c.num \/ c.hi >= UnsignedLimit THEN "float64"
        ELSE IF \E c \in cells : c.hi >= SignedLimit THEN "uint64"
        ELSE "int64"

\* ... .fillna(0).astype("int64") of one cell of that column
ValueRaw(c, dtype, cast) ==
    IF ~c.num THEN Zero
    ELSE IF c.hi < SignedLimit THEN IntVal(c.hi, c.lo)
    ELSE IF dtype = "uint64" THEN IntVal(c.hi - UnsignedLimit, c.lo)
    ELSE OutOfRangeCast(cast)

Direction(to, addr) == IF Lower(to) = Lower(addr) THEN "IN" ELSE "OUT"

\* The amount value_raw / 10^d is kept as the pair (value_raw, d): two
\* amounts with the same d are equal iff their numerators are.  The sampled
\* d are at most 18, for which 10^d fits an int64.
Amount(v, d) == [num |-> v, dec |-> d]

NormalizeRow(r, dtype, addr, cast) ==
    LET d   == Decimals(Cell(r, "tokenDecimal"))
        v   == ValueRaw(Cell(r, "value"), dtype, cast)
        dir == Direction(Cell(r, "to"), addr)
    IN  [ timeStamp     |-> Cell(r, "timeStamp").lo,
          tokenDecimal  |-> d,
          value_raw     |-> v,
          amount        |-> Amount(v, d),
          direction     |-> dir,
          signed_amount |-> IF dir = "IN" THEN Amount(v, d) ELSE Amount(Negate(v), d),
          counterparty  |-> IF dir = "IN" THEN Cell(r, "from") ELSE Cell(r, "to"),
          from          |-> Cell(r, "from"),
          to            |-> Cell(r, "to"),
          hash          |-> Cell(r, "hash") ]

\* Lines 153-180: the frame of the accumulated rows, the required-column
\* check and the derived columns.
Normalize(rs, addr, cast) ==
    IF Empty(rs) THEN EmptyFrame
    ELSE IF Required \ Columns(rs) # {} THEN [status |-> "raised", error |-> "missing columns", table |-> <<>>]
    ELSE IF ~TimestampsParse(rs) THEN [status |-> "raised", error |-> "ValueError", table |-> <<>>]
    ELSE [ status |-> "ok",
           error  |-> "none",
           table  |-> [i \in 1..Len(rs) |->
                          NormalizeRow(rs[i], ValueDtype(rs), addr, cast)] ]

-----------------------------------------------------------------------------
(* Normalisation applied to one batch *)

WalletLower == Prefix0x \o Repeat("a", AddrLen - 2)
WalletMixed == Prefix0x \o Repeat("A", AddrLen - 2)
OtherAddr   == Prefix0x \o Repeat("f", AddrLen - 2)

MaxBatch == 2

SampleTimestamps == {Small(0), Junk}
SampleValues     == {Junk, Small(5), Big(SignedLimit - 1), Big(SignedLimit), Big(UnsignedLimit)}
SampleDecimals   == {Junk, Small(18)}

RawRecord(ts, v, d, to, h) ==
    [ timeStamp |-> ts, value |-> v, tokenDecimal |-> d,
      from |-> OtherAddr, to |-> to, hash |-> h ]

SampleRecords ==
    { RawRecord(ts, v, d, to, <<0, 0>>) :
        ts \in SampleTimestamps, v \in SampleValues, d \in SampleDecimals,
        to \in {WalletMixed, OtherAddr} }

Without(r, k) == [x \in DOMAIN r \ {k} |-> r[x]]

\* Batches of one to MaxBatch records; the hash key may be absent from the
\* first record or from all of them.
SampleBatches ==
    LET full == UNION {[1..n -> SampleRecords] : n \in 1..MaxBatch}
    IN  full
        \cup {[i \in 1..Len(b) |-> Without(b[i], "hash")] : b \in full}
        \cup {[i \in 1..Len(b) |-> IF i = 1 THEN Without(b[i], "hash") ELSE b[i]] :
                 b \in {x \in full : Len(x) > 1}}

NormIdle == norm_in = <<>> /\ norm_pc = "idle" /\ norm_res = EmptyFrame

NormInit == norm_in \in SampleBatches /\ norm_pc = "call" /\ norm_res = EmptyFrame

RunNormalize ==
    /\ norm_pc = "call"
    /\ \E cast \in CastOutcomes : norm_res' = Normalize(norm_in, WalletLower, cast)
    /\ norm_pc' = "done"
    /\ UNCHANGED <<norm_in, scriptVars, addrVars, aggVars>>

-----------------------------------------------------------------------------
(* get_api_key (app.py:46-56) *)

\* Key texts: absent, empty, blank only, or a key.
KeyStrip(v) == IF v = " " THEN "" ELSE v

Truthy(v) == v # NoValue /\ v # ""

\* A plausible slip: a missing key replaced by an empty one.
get_api_key_default == IF Truthy(secret) THEN KeyStrip(secret) ELSE "anonymous"

get_api_key ==
    IF Truthy(secret) THEN KeyStrip(secret)
    ELSE IF Truthy(envkey) THEN KeyStrip(envkey)
    ELSE NoValue

-----------------------------------------------------------------------------
(* The upstream API, as the pager sees it *)

MaxOffset == 2
MaxPages  == 3

\* Result texts, word by word.
Sentinel == <<"No", "transactions">>

Texts == { <<"No", "transactions", "found">>,
           <<"Error!", "No", "transactions", "found">>,
           <<"Max", "rate", "limit", "reached">>,
           <<"no", "transactions">>,
           <<>> }

\* "No transactions" in result
Contains(text, pat) ==
    \E i \in 1..(Len(text) - Len(pat) + 1) : SubSeq(text, i, i + Len(pat) - 1) = pat

\* The records of a page: record i of page p has hash <<p, i>>.  A page of
\* kind "in" holds transfers to the wallet (receiver in mixed case), one of
\* kind "badts" holds records whose timeStamp is no number.
RecordKinds == {"in", "badts"}

PageRecord(p, i, kind) ==
    RawRecord(IF kind = "badts" THEN Junk ELSE Small(p), Small(5), Small(18),
              WalletMixed, <<p, i>>)

PageItems(p, n, kind) == [i \in 1..n |-> PageRecord(p, i, kind)]

\* data.get("result"): a list, a string, null (None, also when the key is
\* absent) or a value of another JSON type.
ListResult(items) == [type |-> "list", items |-> items, text |-> <<>>]
TextResult(t)     == [type |-> "str",  items |-> <<>>,  text |-> t]
NullResult        == [type |-> "null", items |-> <<>>,  text |-> <<>>]
OtherResult(t)    == [type |-> t,      items |-> <<>>,  text |-> <<>>]

Body(st, res) == [status |-> st, result |-> res]

\* The bodies page p may be answered with when the page size is off.
Bodies(p, off) ==
    { Body("1", ListResult(PageItems(p, n, k))) : n \in 1..(off + 1), k \in RecordKinds }
    \cup { Body(st, res) :
             st \in {"0", "1"},
             res \in {ListResult(<<>>), NullResult, OtherResult("dict"), OtherResult("int")}
                     \cup {TextResult(t) : t \in Texts} }

\* A plausible slip: a null result taken for the end of the data.
Classify_lenient(body) ==
    LET result == body.result
    IN  IF result.type = "null" THEN "EmptyList"
        ELSE IF result.type = "str"
             THEN IF Contains(result.text, Sentinel) THEN "EmptyFinal" ELSE "ApiError"
        ELSE IF result.type # "list" THEN "MalformedShape"
        ELSE IF Len(result.items) = 0 THEN "EmptyList"
        ELSE "Page"

\* A plausible slip: the status field consulted, "0" taken for a failure.
Classify_status(body) ==
    LET result == body.result
    IN  IF result.type = "null" \/ (result.type = "str" /\ body.status = "0") THEN "ApiError"
        ELSE IF result.type = "str"
             THEN IF Contains(result.text, Sentinel) THEN "EmptyFinal" ELSE "ApiError"
        ELSE IF result.type # "list" THEN "MalformedShape"
        ELSE IF Len(result.items) = 0 THEN "EmptyList"
        ELSE "Page"

\* Lines 127-148: what the pager does with a decoded body.
\*   "Page"           rows.extend(result)
\*   "EmptyList"      break, keeping rows
\*   "EmptyFinal"     return pd.DataFrame()
\*   "ApiError"       raise RuntimeError (null result, or an error text)
\*   "MalformedShape" raise RuntimeError (unexpected shape)
Classify(body) ==
    LET result == body.result
    IN  IF result.type = "null" THEN "ApiError"
        ELSE IF result.type = "str"
             THEN IF Contains(result.text, Sentinel) THEN "EmptyFinal" ELSE "ApiError"
        ELSE IF result.type # "list" THEN "MalformedShape"
        ELSE IF Len(result.items) = 0 THEN "EmptyList"
        ELSE "Page"

\* The RuntimeError raised for a rejected body (lines 131, 137, 140).
ErrorText(body) ==
    IF body.result.type = "null" THEN "null result"
    ELSE IF body.result.type = "str" THEN "API error"
    ELSE "unexpected shape"

\* A plausible slip: the ceiling reached one page early.
PastCeiling_early(p, mp) == p >= mp

\* A plausible slip: the ceiling reached one page late.
PastCeiling_late(p, mp) == p > mp + 1

\* Line 111: if page > max_pages: break
PastCeiling(p, mp) == p > mp

\* Line 147: if len(result) < offset: break
IsShortPage(items, off) == Len(items) < off

-----------------------------------------------------------------------------
(* One run of the script (app.py:197-275) *)

Request(action, p) == [action |-> action, page |-> p]

NonHexAddr == Prefix0x \o Repeat("g", AddrLen - 2)
ShortAddr  == Prefix0x \o Repeat("a", AddrLen - 3)

ScriptInit ==
    /\ pc = "start"
    /\ secret \in {NoValue, " ", "k"}
    /\ envkey \in {NoValue, "k"}
    /\ apikey = NoValue
    /\ address \in {<<>>, WalletLower, NonHexAddr, ShortAddr}
    /\ button \in {"none", "test", "fetch"}
    /\ offset \in 1..MaxOffset
    /\ max_pages \in 1..MaxPages
    /\ page = 0
    /\ rows = <<>>
    /\ requests = <<>>
    /\ responses = <<>>
    /\ slept = 0
    /\ fetch = "none"
    /\ df = EmptyFrame
    /\ error = "none"
    /\ ui = "none"

ScriptIdle ==
    /\ pc = "idle" /\ secret = NoValue /\ envkey = NoValue /\ apikey = NoValue
    /\ address = <<>> /\ button = "none" /\ offset = 1 /\ max_pages = 1
    /\ page = 0 /\ rows = <<>> /\ requests = <<>> /\ responses = <<>>
    /\ slept = 0 /\ fetch = "none" /\ df = EmptyFrame /\ error = "none" /\ ui = "none"

inputs == <<secret, envkey, address, button, offset, max_pages>>

nonScript == <<addrVars, normVars, aggVars>>

\* st.stop(), or the end of the script, with the message shown
Stop(msg) == pc' = "done" /\ ui' = msg

\* Lines 197-200
CheckApiKey ==
    /\ pc = "start"
    /\ apikey' = get_api_key
    /\ IF ~Truthy(apikey') THEN Stop("config_error")
       ELSE pc' = "actions" /\ ui' = ui
    /\ UNCHANGED <<nonScript, inputs, page, rows, requests, responses, slept, fetch, df, error>>

\* Neither button clicked: the script runs through.
NoAction ==
    /\ pc = "actions" /\ button = "none"
    /\ Stop("idle")
    /\ UNCHANGED <<nonScript, inputs, apikey, page, rows, requests, responses, slept, fetch, df, error>>

\* Lines 234-249, with test_tokenbalance (80-92)
DoTest ==
    /\ pc = "actions" /\ button = "test"
    /\ IF ~is_valid_address(address)
       THEN Stop("invalid_address") /\ requests' = requests
       ELSE /\ requests' = Append(requests, Request("tokenbalance", 0))
            /\ \E got \in {"ok", "status0", "exception"} : Stop("test_" \o got)
    /\ UNCHANGED <<nonScript, inputs, apikey, page, rows, responses, slept, fetch, df, error>>

\* Lines 251-258 and 107-108.  The st.cache_data memo (line 95) only spares
\* a later run the upstream calls; within one run the function body runs.
DoFetch ==
    /\ pc = "actions" /\ button = "fetch"
    /\ IF ~is_valid_address(address)
       THEN Stop("invalid_address") /\ UNCHANGED <<page, fetch>>
       ELSE pc' = "loop" /\ page' = 1 /\ fetch' = "running" /\ ui' = ui
    /\ UNCHANGED <<nonScript, inputs, apikey, rows, requests, responses, slept, df, error>>

\* Lines 268-271: the exception reaches the caller.
Raise(e) == fetch' = "raised" /\ error' = e /\ df' = df /\ Stop("fetch_failed")

\* Lines 153-180 and 273-275: leave the loop with rows rs.
Return(rs) ==
    \E cast \in CastOutcomes :
        LET res == Normalize(rs, address, cast)
        IN  IF res.status = "raised" THEN Raise(res.error)
            ELSE /\ fetch' = "returned"
                 /\ df' = res
                 /\ error' = error
                 /\ Stop(IF Len(res.table) = 0 THEN "no_data" ELSE "shown")

\* Lines 110-126: the ceiling test, then the request for the page.
LoopTop ==
    /\ pc = "loop"
    /\ IF PastCeiling(page, max_pages)
       THEN Return(rows) /\ requests' = requests
       ELSE /\ requests' = Append(requests, Request("tokentx", page))
            /\ pc' = "await"
            /\ UNCHANGED <<fetch, df, error, ui>>
    /\ UNCHANGED <<nonScript, inputs, apikey, page, rows, responses, slept>>

\* etherscan_v2_get fails (raise_for_status, timeout): lines 65-69.
TransportError ==
    /\ pc = "await"
    /\ Raise("transport")
    /\ UNCHANGED <<nonScript, inputs, apikey, page, rows, requests, responses, slept>>

\* Lines 126-150: the body arrives.
Receive ==
    /\ pc = "await"
    /\ \E body \in Bodies(page, offset) :
        LET c     == Classify(body)
            items == body.result.items
        IN  /\ responses' = Append(responses, body)
            /\ CASE c \in {"ApiError", "MalformedShape"} ->
                      Raise(ErrorText(body)) /\ UNCHANGED <<page, rows>>
                 [] c = "EmptyFinal" ->
                      /\ fetch' = "returned" /\ df' = EmptyFrame /\ Stop("no_data")
                      /\ UNCHANGED <<page, rows, error>>
                 [] c = "EmptyList" ->
                      Return(rows) /\ UNCHANGED <<page, rows>>
                 [] c = "Page" ->
                      /\ rows' = rows \o items
                      /\ IF IsShortPage(items, offset)
                         THEN Return(rows') /\ page' = page
                         ELSE /\ page' = page + 1
                              /\ pc' = "sleep"
                              /\ UNCHANGED <<fetch, df, error, ui>>
    /\ UNCHANGED <<nonScript, inputs, apikey, requests, slept>>

\* Line 151
Sleep ==
    /\ pc = "sleep"
    /\ slept' = slept + 1
    /\ pc' = "loop"
    /\ UNCHANGED <<nonScript, inputs, apikey, page, rows, requests, responses, fetch, df, error, ui>>

-----------------------------------------------------------------------------
(* Date filter and daily net flow (app.py:297-317) *)

TzOffsetSeconds == 32400
DaySeconds      == 86400

\* The calendar day, in Asia/Tokyo, of an instant given in Unix seconds.
LocalDay(ts) == (ts + TzOffsetSeconds) \div DaySeconds

Days(t) == {LocalDay(t[i].timeStamp) : i \in 1..Len(t)}

MinOf(S) == CHOOSE x \in S : \A y \in S : x <= y
MaxOf(S) == CHOOSE x \in S : \A y \in S : x >= y

\* df[(date >= start_dt) & (date <= end_dt)]
FilterByDate(t, s, e) ==
    SelectSeq(t, LAMBDA r : LocalDay(r.timeStamp) >= s /\ LocalDay(r.timeStamp) <= e)

RECURSIVE DaySum(_, _)
DaySum(t, d) ==
    IF t = <<>> THEN 0
    ELSE (IF LocalDay(Head(t).timeStamp) = d THEN Head(t).signed_amount ELSE 0)
         + DaySum(Tail(t), d)

\* A plausible slip: groupby(date).sum(), which has rows only for the days
\* that occur.
GroupByDay(t) ==
    LET ds == Days(t)
        nth[k \in 1..Cardinality(ds)] ==
            CHOOSE d \in ds : Cardinality({x \in ds : x < d}) = k - 1
    IN  [k \in 1..Cardinality(ds) |-> [day |-> nth[k], signed_amount |-> DaySum(t, nth[k])]]

\* set_index("timeStamp")["signed_amount"].resample("D").sum().reset_index():
\* one bin per calendar day from the first row's day to the last row's day,
\* an empty bin summing to 0.
Resample(t) ==
    LET lo == MinOf(Days(t))
        hi == MaxOf(Days(t))
    IN  [k \in 1..(hi - lo + 1) |->
            [day |-> lo + k - 1, signed_amount |-> DaySum(t, lo + k - 1)]]

MaxRows == 3

SampleHours == {0, 14, 15, 63}

SampleRows ==
    { [timeStamp |-> h * 3600, signed_amount |-> a] : h \in SampleHours, a \in {-3, 2} }

SampleTables == UNION {[1..n -> SampleRows] : n \in 1..MaxRows}

AggIdle ==
    agg_in = <<>> /\ agg_pc = "idle" /\ agg_range = <<0, 0>> /\ agg_f = <<>> /\ daily = <<>>

AggInit ==
    agg_in \in SampleTables /\ agg_pc = "filter" /\ agg_range = <<0, 0>>
    /\ agg_f = <<>> /\ daily = <<>>

\* Lines 297-317: the date range picked within [min, max], the filter, the
\* stop on an empty selection, the daily series.
Aggregate ==
    /\ agg_pc = "filter"
    /\ \E s \in MinOf(Days(agg_in))..MaxOf(Days(agg_in)) :
       \E e \in s..MaxOf(Days(agg_in)) :
            /\ agg_range' = <<s, e>>
            /\ agg_f' = FilterByDate(agg_in, s, e)
            /\ IF agg_f' = <<>>
               THEN agg_pc' = "no_data_in_range" /\ daily' = <<>>
               ELSE agg_pc' = "charted" /\ daily' = Resample(agg_f')
    /\ UNCHANGED <<agg_in, scriptVars, addrVars, normVars>>

-----------------------------------------------------------------------------
(* Specifications *)

\* One run of the script.
Init == ScriptInit /\ AddrIdle /\ NormIdle /\ AggIdle

Next ==
    \/ CheckApiKey
    \/ NoAction
    \/ DoTest
    \/ DoFetch
    \/ LoopTop
    \/ TransportError
    \/ Receive
    \/ Sleep

Spec == Init /\ [][Next]_vars

\* is_valid_address on every sampled input.
InitAddr == ScriptIdle /\ AddrInit /\ NormIdle /\ AggIdle
NextAddr == Validate
SpecAddr == InitAddr /\ [][NextAddr]_vars

\* The normalisation block on every sampled batch.
InitNorm == ScriptIdle /\ AddrIdle /\ NormInit /\ AggIdle
NextNorm == RunNormalize
SpecNorm == InitNorm /\ [][NextNorm]_vars

\* The date filter and the daily series on every sampled table.
InitAgg == ScriptIdle /\ AddrIdle /\ NormIdle /\ AggInit
NextAgg == Aggregate
SpecAgg == InitAgg /\ [][NextAgg]_vars

-----------------------------------------------------------------------------
(* Claims about the pager and the script run, checked under Spec *)

IsListBody(b)        == b.result.type = "list"
FullPageBody(b, off) == IsListBody(b) /\ Len(b.result.items) = off
ShortPageBody(b, off) == IsListBody(b) /\ Len(b.result.items) < off

\* The fetch left its loop by a break (not by a rejected body, a transport
\* failure or the early return on the sentinel).
LoopEnded ==
    /\ pc = "done"
    /\ fetch \in {"returned", "raised"}
    /\ error \in {"none", "ValueError", "missing columns"}
    /\ ~(responses # <<>> /\ Classify(responses[Len(responses)]) = "EmptyFinal")

\* C1, as stated: when the upstream serves max_pages full pages of size
\* offset and then a short page of n < offset records, the fetch accumulates
\* (max_pages - 1) * offset + n raw records.
C1_Original ==
    ( /\ LoopEnded
      /\ fetch = "returned"
      /\ Len(responses) >= max_pages
      /\ \A i \in 1..max_pages : FullPageBody(responses[i], offset) )
    => \E n \in 0..(offset - 1) : Len(rows) = (max_pages - 1) * offset + n

\* C1, amended: when the upstream serves max_pages - 1 full pages and then a
\* short page, the fetch accumulates (max_pages - 1) * offset + the short
\* page's length; when it serves nothing but full pages, the fetch stops at
\* the ceiling after exactly max_pages requests with max_pages * offset
\* records, and a short page that would follow is never requested.
C1_Amended ==
    /\ ( /\ LoopEnded
         /\ Len(responses) = max_pages
         /\ \A i \in 1..(max_pages - 1) : FullPageBody(responses[i], offset)
         /\ ShortPageBody(responses[max_pages], offset) )
       => Len(rows) = (max_pages - 1) * offset + Len(responses[max_pages].result.items)
    /\ ( /\ LoopEnded
         /\ \A i \in 1..Len(responses) : FullPageBody(responses[i], offset) )
       => /\ Len(responses) = max_pages
          /\ Len(requests) = max_pages
          /\ Len(rows) = max_pages * offset

C1_Witness ==
    /\ LoopEnded
    /\ max_pages = 2 /\ offset = 2
    /\ Len(responses) = 2
    /\ FullPageBody(responses[1], offset)
    /\ ShortPageBody(responses[2], offset)
    /\ Len(responses[2].result.items) = 1
    /\ Len(rows) = 3

\* The claim's own reading of a body that must abort the fetch: the result
\* is null, a text without the sentinel, or neither a list nor a text.
IsRejected(b) ==
    \/ b.result.type = "null"
    \/ b.result.type = "str" /\ ~Contains(b.result.text, Sentinel)
    \/ b.result.type \notin {"null", "str", "list"}

\* C2: once a requested page is answered by a body that is an API error or
\* of an unexpected shape, the fetch has raised and no table is returned,
\* however many records the earlier pages contributed.
C2_FailFast ==
    \A i \in 1..Len(responses) :
        IsRejected(responses[i])
        => /\ fetch = "raised"
           /\ df = EmptyFrame
           /\ ui = "fetch_failed"
           /\ i = Len(responses)

C2_Witness ==
    /\ Len(responses) = 2
    /\ IsRejected(responses[2])
    /\ Len(rows) > 0
    /\ fetch = "raised"

RECURSIVE ConcatItems(_)
ConcatItems(bodies) ==
    IF bodies = <<>> THEN <<>>
    ELSE (IF IsListBody(Head(bodies)) THEN Head(bodies).result.items ELSE <<>>)
         \o ConcatItems(Tail(bodies))

HashesOf(t) == [i \in 1..Len(t) |-> t[i].hash]

\* C3: whenever the fetch returns without raising, the rows of the returned
\* table are the records of every list received, concatenated in fetch
\* order, whatever the later pages answered.
C3_Accumulation ==
    fetch = "returned" => HashesOf(df.table) = HashesOf(ConcatItems(responses))

\* What the claim says becomes of a body, by its result field alone; a
\* result that is no non-empty list, text or null is of an unexpected shape.
Claimed4(res) ==
    IF res.type = "list" /\ Len(res.items) > 0 THEN "Page"
    ELSE IF res.type = "str" /\ Contains(res.text, Sentinel) THEN "EmptyFinal"
    ELSE IF res.type = "str" \/ res.type = "null" THEN "ApiError"
    ELSE "MalformedShape"

\* The same with the empty list as a fifth outcome.
Claimed5(res) ==
    IF res.type = "list" /\ Len(res.items) = 0 THEN "EmptyList" ELSE Claimed4(res)

\* What a step that receives body b is seen to do, for each outcome.
Behaves(o, b) ==
    CASE o = "Page" ->
            /\ rows' = rows \o b.result.items
            /\ error' \notin {"null result", "API error", "unexpected shape"}
      [] o = "EmptyFinal" ->
            fetch' = "returned" /\ error' = "none" /\ ui' = "no_data" /\ df' = EmptyFrame
      [] o = "ApiError" ->
            fetch' = "raised" /\ error' \in {"null result", "API error"} /\ rows' = rows
      [] o = "MalformedShape" ->
            fetch' = "raised" /\ error' = "unexpected shape" /\ rows' = rows
      [] o = "EmptyList" ->
            /\ rows' = rows /\ pc' = "done"
            /\ error' \notin {"null result", "API error", "unexpected shape"}
            /\ fetch' = "returned" => HashesOf(df'.table) = HashesOf(rows)

Received == Len(responses') = Len(responses) + 1

\* C4, as stated: every body received is handled as exactly one of Page,
\* EmptyFinal, ApiError and MalformedShape, chosen by its result field.
C4_Original ==
    [][Received =>
         LET b == responses'[Len(responses')] IN Behaves(Claimed4(b.result), b)]_vars

\* C4, amended: every body received is handled as exactly one of five
\* outcomes chosen by its result field alone: the four of the claim, and
\* for an empty list the end of the data (the loop stops without an error
\* and the records accumulated so far are kept).
C4_Amended ==
    [][Received =>
         LET b == responses'[Len(responses')] IN Behaves(Claimed5(b.result), b)]_vars

C4_Witness ==
    /\ Len(responses) = 2
    /\ responses[2].result = ListResult(<<>>)
    /\ responses[2].status = "0"
    /\ fetch = "returned"
    /\ Len(df.table) > 0

HasKeyText(v) == v \notin {NoValue, "", " "}

\* C5: no request goes upstream when neither source holds an API key or
\* when the address fails is_valid_address, and such a run that asked for
\* an upstream call ends with the matching error message.
C5_ValidationFirst ==
    /\ (~HasKeyText(secret) /\ ~HasKeyText(envkey)) =>
          /\ requests = <<>>
          /\ pc = "done" => ui = "config_error"
    /\ ~is_valid_address(address) =>
          /\ requests = <<>>
          /\ (pc = "done" /\ button # "none") => ui \in {"config_error", "invalid_address"}

C5_Witness ==
    /\ pc = "done"
    /\ button = "fetch"
    /\ HasKeyText(secret)
    /\ address = ShortAddr
    /\ ui = "invalid_address"
    /\ requests = <<>>

\* The page numbers requested so far are 1, 2, ..., k with k <= max_pages.
PagesInOrder ==
    /\ Len(requests) <= max_pages
    /\ \A i \in 1..Len(requests) : requests[i] = Request("tokentx", i)

\* C10, as stated: the pages requested are 1..k in order, each once,
\* k <= max_pages, and page p + 1 is requested only after page p returned a
\* list of exactly offset records and the delay has elapsed.
C10_Original ==
    button = "fetch" =>
        /\ PagesInOrder
        /\ \A i \in 2..Len(requests) :
              /\ Len(responses) >= i - 1
              /\ FullPageBody(responses[i - 1], offset)
              /\ slept >= i - 1

\* C10, amended: the same, page p + 1 being requested only after page p
\* returned a list of at least offset records.
C10_Amended ==
    button = "fetch" =>
        /\ PagesInOrder
        /\ \A i \in 2..Len(requests) :
              /\ Len(responses) >= i - 1
              /\ IsListBody(responses[i - 1])
              /\ Len(responses[i - 1].result.items) >= offset
              /\ slept >= i - 1

C10_Witness ==
    /\ Len(requests) = 3
    /\ max_pages = 3
    /\ slept = 2
    /\ pc = "await"

-----------------------------------------------------------------------------
(* Claim about is_valid_address, checked under SpecAddr *)

\* C6: is_valid_address is true of '0x' followed by exactly 40 hexadecimal
\* characters and false of every other string.
C6_HexOnly == addr_pc = "done" => (addr_res <=> IsHexAddress(addr_in))

-----------------------------------------------------------------------------
(* Claims about the normalisation, checked under SpecNorm *)

\* C7: for every record whose value is an unsigned integer v and whose
\* decimal count is d, the normalised amount is v / 10^d, so never negative.
C7_AmountExact ==
    (norm_pc = "done" /\ norm_res.status = "ok") =>
        \A i \in 1..Len(norm_res.table) :
            LET v == norm_in[i].value
                d == norm_in[i].tokenDecimal
            IN  (v.num /\ d.num) =>
                    /\ norm_res.table[i].amount = Amount(IntVal(v.hi, v.lo), d.lo)
                    /\ ~IsNegative(norm_res.table[i].amount.num)

\* C9: when every required column is present, an unparsable timeStamp,
\* value or tokenDecimal does not fail the batch; it counts as 0 and the
\* table has one row per record.
C9_Lenient ==
    (norm_pc = "done" /\ Required \subseteq Columns(norm_in)) =>
        /\ norm_res.status = "ok"
        /\ Len(norm_res.table) = Len(norm_in)
        /\ \A i \in 1..Len(norm_res.table) :
              /\ ~norm_in[i].timeStamp.num => norm_res.table[i].timeStamp = 0
              /\ ~norm_in[i].value.num => norm_res.table[i].value_raw = Zero
              /\ ~norm_in[i].tokenDecimal.num => norm_res.table[i].tokenDecimal = 0

-----------------------------------------------------------------------------
(* Claim about the daily net flow, checked under SpecAgg *)

\* The Asia/Tokyo calendar day of an instant: UTC+9, no daylight saving.
TokyoDay(ts) == (ts + 9 * 3600) \div (24 * 3600)

TransferDays(t) == {TokyoDay(t[i].timeStamp) : i \in 1..Len(t)}

RECURSIVE NetOn(_, _)
NetOn(t, d) ==
    IF t = <<>> THEN 0
    ELSE (IF TokyoDay(Head(t).timeStamp) = d THEN Head(t).signed_amount ELSE 0)
         + NetOn(Tail(t), d)

SeriesDays == {daily[k].day : k \in 1..Len(daily)}

====
